---- MODULE Spec2Model ----
(***************************************************************************)
(* A model of moonraker/components/recore.py: the Recore component (the    *)
(* request facade with its readiness event) and the BaseProvider it        *)
(* drives.  Every handler is an asyncio coroutine; an action of the model  *)
(* is the code a coroutine runs between two suspension points (awaits of   *)
(* an external process or of the readiness event).                         *)
(*                                                                         *)
(* Text produced by a shell command is a sequence of one-character         *)
(* strings, so that str.strip() and truthiness are computed, not assumed.  *)
(* Commands handed to the privileged execution path are TLA+ strings built *)
(* with \o as the f-strings of the source build them.                      *)
(***************************************************************************)
EXTENDS Naturals, Sequences, FiniteSets, TLC

VARIABLES
    inside_container,   \* Recore.inside_container
    init_evt,           \* Recore.init_evt (asyncio.Event): TRUE when set
    init,               \* the component_init coroutine
    waiters,            \* the callers of wait_for_init
    req,                \* one request served by _handle_machine_request
                        \* (evtAtEntry records init_evt when it was entered;
                        \* no handler reads the event)
    rpc,                \* one remote-method call of the provider
    query,              \* one request served by _handle_recore_state_request
    provArg,            \* per caller: the argument the provider method received
    sudoCalls,          \* per caller: commands given to machine.exec_sudo_command
    sudoOutcome,        \* per caller: how the privileged call ended
    shellLog            \* run_with_response round trips of the state query

vars == <<inside_container, init_evt, init, waiters, req, rpc, query,
          provArg, sudoCalls, sudoOutcome, shellLog>>

-----------------------------------------------------------------------------
(* Bounds of the model *)

MaxLen == 2
MaxTimeout == 1

-----------------------------------------------------------------------------
(* Text *)

Chars == {"u", " ", "\n"}
Whitespace == {" ", "\n"}

RECURSIVE SeqsUpTo(_)
SeqsUpTo(n) ==
    IF n = 0 THEN {<<>>}
    ELSE LET shorter == SeqsUpTo(n - 1)
         IN  shorter \cup {Append(s, c) : s \in shorter, c \in Chars}

Failed == <<"F", "a", "i", "l", "e", "d">>
Unknown == <<"u", "n", "k", "n", "o", "w", "n">>

RECURSIVE LStrip(_)
LStrip(s) ==
    IF s = <<>> THEN s
    ELSE IF Head(s) \in Whitespace THEN LStrip(Tail(s)) ELSE s

RECURSIVE RStrip(_)
RStrip(s) ==
    IF s = <<>> THEN s
    ELSE IF s[Len(s)] \in Whitespace THEN RStrip(SubSeq(s, 1, Len(s) - 1)) ELSE s

\* str.strip() with no argument
Strip(s) == RStrip(LStrip(s))

-----------------------------------------------------------------------------
(* Outcomes of the external collaborators *)

Ok(out) == [kind |-> "ok", out |-> out]
NoOutcome == [kind |-> "none", out |-> <<>>]
ShellError == [kind |-> "error", out |-> <<>>]

\* run_with_response: a response of at most MaxLen characters, or shell_cmd.error
Outcomes == {Ok(s) : s \in SeqsUpTo(MaxLen)} \cup {ShellError}
\* the outcomes used when all coroutines are interleaved
FewOutcomes == {Ok(<<>>), Ok(<<"u", "\n">>), ShellError}

SudoOutcomes == {"ok", "error"}
InitializeOutcomes == {"ok", "error"}

\* what a coroutine hands back to its caller
Return(v) == [raised |-> FALSE, value |-> v]
Raise(e) == [raised |-> TRUE, value |-> e]

-----------------------------------------------------------------------------
(* Recore.__init__ *)

enable_ssh_ep == "/recore/enable_ssh"
set_boot_media_ep == "/recore/set_boot_media"
state_ep == "/recore/state"
get_boot_media_bin == "/usr/local/bin/get-boot-media"
is_ssh_enabled_bin == "/usr/local/bin/is-ssh-enabled"

\* paths a request can carry; the last three are not machine requests
Endpoints == {enable_ssh_ep, set_boot_media_ep, state_ep,
              "/recore/enable_ssh/", "/machine/reboot"}
\* values a request body or a remote-method call can carry
Values == {"true", "false", "usb", "emmc"}
Methods == {"enable_ssh", "set_boot_media"}
Callers == {"http", "rpc", "state"}
Waiters == {"w1", "w2"}
None == "None"
\* the timeout argument of wait_for_init: <<>> is None, <<n>> is n time units
NoTimeout == <<>>
Timeouts == {NoTimeout} \cup {<<n>> : n \in 0..MaxTimeout}

IdleReq == [pc |-> "idle", ep |-> None, value |-> None,
            result |-> None, error |-> None, evtAtEntry |-> FALSE]
IdleRpc == [pc |-> "idle", method |-> None, arg |-> None, error |-> None]
IdleQuery == [pc |-> "idle", bootOut |-> NoOutcome, sshOut |-> NoOutcome,
              boot_media |-> <<>>, ssh_enabled |-> <<>>,
              resp |-> <<>>, error |-> None, evtAtEntry |-> FALSE]
IdleWaiter == [pc |-> "idle", timeout |-> NoTimeout, remaining |-> 0,
               via |-> None, error |-> None]

Init ==
    /\ inside_container = FALSE
    /\ init_evt = FALSE
    /\ init = [pc |-> "idle", initialized |-> FALSE]
    /\ waiters = [w \in Waiters |-> IdleWaiter]
    /\ req = IdleReq
    /\ rpc = IdleRpc
    /\ query = IdleQuery
    /\ provArg = [c \in Callers |-> None]
    /\ sudoCalls = [c \in Callers |-> <<>>]
    /\ sudoOutcome = [c \in Callers |-> None]
    /\ shellLog = <<>>

-----------------------------------------------------------------------------
(* GET /recore/state: Recore._handle_recore_state_request *)

\* a variant of _get_boot_media without the except clause
get_boot_media_uncaught(o) ==
    IF o.kind = "error" THEN Raise("ShellCommandError")
    ELSE IF o.out # <<>> THEN Return(Strip(o.out))
    ELSE Return(Unknown)

\* Recore._get_boot_media, given how run_with_response ended
get_boot_media(o) ==
    IF o.kind = "error" THEN Return(Failed)
    ELSE IF o.out # <<>> THEN Return(Strip(o.out))
    ELSE Return(Unknown)

\* a variant of _get_ssh_enabled without the except clause
get_ssh_enabled_uncaught(o) ==
    IF o.kind = "error" THEN Raise("ShellCommandError")
    ELSE IF o.out # <<>> THEN Return(Strip(o.out))
    ELSE Return(Unknown)

\* a variant of _get_ssh_enabled that trims only the end of the response
get_ssh_enabled_rstrip(o) ==
    IF o.kind = "error" THEN Return(Failed)
    ELSE IF o.out # <<>> THEN Return(RStrip(o.out))
    ELSE Return(Unknown)

\* Recore._get_ssh_enabled, given how run_with_response ended
get_ssh_enabled(o) ==
    IF o.kind = "error" THEN Return(Failed)
    ELSE IF o.out # <<>> THEN Return(Strip(o.out))
    ELSE Return(Unknown)

\* the dictionary the state handler returns
StateResponse(ssh, boot) ==
    [recore_state |-> [ssh_enabled |-> ssh, boot_media |-> boot]]

Started(cmd) == [ev |-> "start", cmd |-> cmd]
Ended(cmd) == [ev |-> "end", cmd |-> cmd]

\* the handler is entered and awaits get_boot_media_cmd.run_with_response
StateRequestStart ==
    /\ query.pc = "idle"
    /\ query' = [query EXCEPT !.pc = "boot_media", !.evtAtEntry = init_evt]
    /\ shellLog' = Append(shellLog, Started(get_boot_media_bin))
    /\ UNCHANGED <<inside_container, init_evt, init, waiters, req, rpc,
                   provArg, sudoCalls, sudoOutcome>>

\* get-boot-media ends; _get_boot_media returns and the handler awaits
\* is_ssh_enabled_cmd.run_with_response
BootMediaReturn(outs) ==
    \E o \in outs :
        /\ query.pc = "boot_media"
        /\ LET r == get_boot_media(o)
           IN  IF r.raised
               THEN /\ query' = [query EXCEPT !.pc = "raised", !.bootOut = o,
                                              !.error = r.value]
                    /\ shellLog' = Append(shellLog, Ended(get_boot_media_bin))
               ELSE /\ query' = [query EXCEPT !.pc = "ssh_enabled", !.bootOut = o,
                                              !.boot_media = r.value]
                    /\ shellLog' = shellLog \o <<Ended(get_boot_media_bin),
                                                 Started(is_ssh_enabled_bin)>>
        /\ UNCHANGED <<inside_container, init_evt, init, waiters, req, rpc,
                       provArg, sudoCalls, sudoOutcome>>

\* is-ssh-enabled ends; _get_ssh_enabled returns and the handler returns
SshEnabledReturn(outs) ==
    \E o \in outs :
        /\ query.pc = "ssh_enabled"
        /\ LET r == get_ssh_enabled(o)
           IN  IF r.raised
               THEN query' = [query EXCEPT !.pc = "raised", !.sshOut = o,
                                           !.error = r.value]
               ELSE query' = [query EXCEPT
                                 !.pc = "done", !.sshOut = o,
                                 !.ssh_enabled = r.value,
                                 !.resp = <<StateResponse(r.value, query.boot_media)>>]
        /\ shellLog' = Append(shellLog, Ended(is_ssh_enabled_bin))
        /\ UNCHANGED <<inside_container, init_evt, init, waiters, req, rpc,
                       provArg, sudoCalls, sudoOutcome>>

NextQuery ==
    \/ StateRequestStart
    \/ BootMediaReturn(Outcomes)
    \/ SshEnabledReturn(Outcomes)

\* the state query alone, over every response of at most MaxLen characters
SpecQuery == Init /\ [][NextQuery]_vars

-----------------------------------------------------------------------------
(* BaseProvider: enable_ssh, set_boot_media, _exec_sudo_command *)

\* the command enable_ssh(enabled) formats
enable_ssh_cmd(enabled) == "/usr/local/bin/set-ssh-access " \o enabled

\* the command set_boot_media(media) formats
set_boot_media_cmd(media) == "/usr/local/bin/set-boot-media " \o media

ProviderCommand(method, arg) ==
    IF method = "enable_ssh" THEN enable_ssh_cmd(arg) ELSE set_boot_media_cmd(arg)

\* a variant of _exec_sudo_command that issues the command a second time
exec_sudo_command_again(calls, command) == calls \o <<command, command>>

\* _exec_sudo_command: the one call of machine.exec_sudo_command(command),
\* recorded in the caller's list of privileged invocations
exec_sudo_command(calls, command) == Append(calls, command)

\* a variant of the provider methods that swallows the failure
provider_result_swallowed(o) == Return(None)

\* enable_ssh / set_boot_media once the awaited privileged call has ended:
\* its error is not caught, otherwise the method logs and returns None
provider_result(o) ==
    IF o = "error" THEN Raise("ShellCommandError") ELSE Return(None)

\* the host invokes a registered remote method with the caller's argument
RemoteMethodCall(values) ==
    \E m \in Methods, x \in values :
        /\ rpc.pc = "idle"
        /\ rpc' = [rpc EXCEPT !.pc = "awaiting", !.method = m, !.arg = x]
        /\ provArg' = [provArg EXCEPT !["rpc"] = x]
        /\ sudoCalls' = [sudoCalls EXCEPT
                            !["rpc"] = exec_sudo_command(@, ProviderCommand(m, x))]
        /\ UNCHANGED <<inside_container, init_evt, init, waiters, req, query,
                       sudoOutcome, shellLog>>

\* the privileged call of a remote method ends
RemoteSudoReturn ==
    \E o \in SudoOutcomes :
        /\ rpc.pc = "awaiting"
        /\ sudoOutcome' = [sudoOutcome EXCEPT !["rpc"] = o]
        /\ LET r == provider_result(o)
           IN  rpc' = IF r.raised
                      THEN [rpc EXCEPT !.pc = "raised", !.error = r.value]
                      ELSE [rpc EXCEPT !.pc = "done"]
        /\ UNCHANGED <<inside_container, init_evt, init, waiters, req, query,
                       provArg, sudoCalls, shellLog>>

-----------------------------------------------------------------------------
(* POST /recore/enable_ssh, /recore/set_boot_media: _handle_machine_request *)

\* a variant of the dispatch whose last branch is not guarded
MachineRequestTargetDefault(ep) ==
    IF ep = enable_ssh_ep THEN "enable_ssh" ELSE "set_boot_media"

\* the branch of the if/elif/else the endpoint selects
MachineRequestTarget(ep) ==
    IF ep = enable_ssh_ep THEN "enable_ssh"
    ELSE IF ep = set_boot_media_ep THEN "set_boot_media"
    ELSE "unsupported"

\* the argument the handler gives the provider method; the request's value
\* is not read
MachineRequestArg(ep, value) ==
    IF ep = enable_ssh_ep THEN "true" ELSE "usb"

\* the handler is entered; for a machine endpoint it calls the provider,
\* which awaits machine.exec_sudo_command
HandleMachineRequest(eps, values) ==
    \E ep \in eps, v \in values :
        /\ req.pc = "idle"
        /\ IF inside_container
           THEN \* self.system_info is not an attribute of Recore
                /\ req' = [req EXCEPT !.pc = "raised", !.ep = ep, !.value = v,
                                      !.evtAtEntry = init_evt,
                                      !.error = "AttributeError"]
                /\ UNCHANGED <<provArg, sudoCalls>>
           ELSE IF MachineRequestTarget(ep) = "unsupported"
           THEN /\ req' = [req EXCEPT !.pc = "raised", !.ep = ep, !.value = v,
                                      !.error = "Unsupported machine request"]
                /\ UNCHANGED <<provArg, sudoCalls>>
           ELSE LET x == MachineRequestArg(ep, v)
                IN  /\ req' = [req EXCEPT !.pc = "awaiting", !.ep = ep, !.value = v,
                                          !.evtAtEntry = init_evt]
                    /\ provArg' = [provArg EXCEPT !["http"] = x]
                    /\ sudoCalls' = [sudoCalls EXCEPT !["http"] =
                           exec_sudo_command(@,
                               ProviderCommand(MachineRequestTarget(ep), x))]
        /\ UNCHANGED <<inside_container, init_evt, init, waiters, rpc, query,
                       sudoOutcome, shellLog>>

\* the privileged call of the handler's provider method ends
MachineSudoReturn ==
    \E o \in SudoOutcomes :
        /\ req.pc = "awaiting"
        /\ sudoOutcome' = [sudoOutcome EXCEPT !["http"] = o]
        /\ LET r == provider_result(o)
           IN  req' = IF r.raised
                      THEN [req EXCEPT !.pc = "raised", !.error = r.value]
                      ELSE [req EXCEPT !.pc = "done", !.result = "ok"]
        /\ UNCHANGED <<inside_container, init_evt, init, waiters, rpc, query,
                       provArg, sudoCalls, shellLog>>

NextMachine ==
    \/ HandleMachineRequest(Endpoints, Values)
    \/ MachineSudoReturn
    \/ RemoteMethodCall(Values)
    \/ RemoteSudoReturn

\* the mutating operations alone, over every endpoint and value
SpecMachine == Init /\ [][NextMachine]_vars

-----------------------------------------------------------------------------
(* Recore.component_init *)

\* a variant of component_init that sets the event whatever initialize() did
component_init_evt_always(o, evt) == TRUE

\* the readiness event after component_init: init_evt.set() runs only when
\* the awaited sys_provider.initialize() has returned
component_init_evt(o, evt) == IF o = "ok" THEN TRUE ELSE evt

\* the host runs component_init once; an exception of the awaited
\* initialize() leaves the coroutine before init_evt.set()
ComponentInit ==
    \E o \in InitializeOutcomes :
        /\ init.pc = "idle"
        /\ init' = [pc |-> IF o = "ok" THEN "done" ELSE "failed",
                    initialized |-> (o = "ok")]
        /\ init_evt' = component_init_evt(o, init_evt)
        /\ UNCHANGED <<inside_container, waiters, req, rpc, query,
                       provArg, sudoCalls, sudoOutcome, shellLog>>

-----------------------------------------------------------------------------
(* Recore.wait_for_init *)

\* a variant of the timer that treats "no timeout" as a timeout of zero
TimeoutExpiredNoneIsZero(timeout, remaining) == remaining = 0

\* asyncio.wait_for's timer: there is one only when a timeout was given
TimeoutExpired(timeout, remaining) == timeout # NoTimeout /\ remaining = 0

\* a variant of wait_for_init without the except clause
wait_for_init_result_uncaught(o) ==
    IF o = "ok" THEN Return(None) ELSE Raise(o)

\* wait_for_init once asyncio.wait_for has ended: asyncio.TimeoutError is
\* caught and passed over
wait_for_init_result(o) ==
    IF o = "TimeoutError" THEN Return(None)
    ELSE IF o = "ok" THEN Return(None)
    ELSE Raise(o)

Finished(w, o, via) ==
    LET r == wait_for_init_result(o)
    IN  waiters' = [waiters EXCEPT ![w] =
            IF r.raised THEN [@ EXCEPT !.pc = "raised", !.error = r.value]
            ELSE [@ EXCEPT !.pc = "returned", !.via = via]]

\* a caller enters wait_for_init(timeout) and awaits the event
WaitForInit(w) ==
    \E t \in Timeouts :
        /\ waiters[w].pc = "idle"
        /\ waiters' = [waiters EXCEPT ![w] =
               [@ EXCEPT !.pc = "waiting", !.timeout = t,
                         !.remaining = IF t = NoTimeout THEN 0 ELSE t[1]]]
        /\ UNCHANGED <<inside_container, init_evt, init, req, rpc, query,
                       provArg, sudoCalls, sudoOutcome, shellLog>>

\* one time unit of a waiter's timeout passes
Tick(w) ==
    /\ waiters[w].pc = "waiting"
    /\ waiters[w].timeout # NoTimeout
    /\ waiters[w].remaining > 0
    /\ waiters' = [waiters EXCEPT ![w].remaining = @ - 1]
    /\ UNCHANGED <<inside_container, init_evt, init, req, rpc, query,
                   provArg, sudoCalls, sudoOutcome, shellLog>>

\* init_evt.wait() completes because the event is set
EventWakes(w) ==
    /\ waiters[w].pc = "waiting"
    /\ init_evt
    /\ Finished(w, "ok", "event")
    /\ UNCHANGED <<inside_container, init_evt, init, req, rpc, query,
                   provArg, sudoCalls, sudoOutcome, shellLog>>

\* the timeout passes first: asyncio.wait_for raises asyncio.TimeoutError
TimeoutFires(w) ==
    /\ waiters[w].pc = "waiting"
    /\ TimeoutExpired(waiters[w].timeout, waiters[w].remaining)
    /\ Finished(w, "TimeoutError", "timeout")
    /\ UNCHANGED <<inside_container, init_evt, init, req, rpc, query,
                   provArg, sudoCalls, sudoOutcome, shellLog>>

NextInit ==
    \/ ComponentInit
    \/ \E w \in Waiters : WaitForInit(w)
    \/ \E w \in Waiters : Tick(w)
    \/ \E w \in Waiters : EventWakes(w)
    \/ \E w \in Waiters : TimeoutFires(w)

\* startup and its waiters alone; the event loop runs every ready callback
\* and every due timer
FairSpec ==
    /\ Init
    /\ [][NextInit]_vars
    /\ \A w \in Waiters : WF_vars(Tick(w))
    /\ \A w \in Waiters : WF_vars(EventWakes(w))
    /\ \A w \in Waiters : WF_vars(TimeoutFires(w))

-----------------------------------------------------------------------------
(* All coroutines on one event loop *)

FewEndpoints == {enable_ssh_ep, "/machine/reboot"}
FewValues == {"false"}

Next ==
    \/ NextInit
    \/ HandleMachineRequest(FewEndpoints, FewValues)
    \/ MachineSudoReturn
    \/ RemoteMethodCall(FewValues)
    \/ RemoteSudoReturn
    \/ StateRequestStart
    \/ BootMediaReturn(FewOutcomes)
    \/ SshEnabledReturn(FewOutcomes)

Spec == Init /\ [][Next]_vars

-----------------------------------------------------------------------------
(* Properties *)

Trimmable(c) == c \in Whitespace

\* t is s without its leading and trailing whitespace
IsTrimOf(t, s) ==
    \E i \in 1..(Len(s) + 1), j \in 0..Len(s) :
        /\ t = SubSeq(s, i, j)
        /\ \A k \in 1..(i - 1) : Trimmable(s[k])
        /\ \A k \in (j + 1)..Len(s) : Trimmable(s[k])
        /\ t # <<>> => ~Trimmable(t[1]) /\ ~Trimmable(t[Len(t)])

IsPrefix(s, t) == Len(s) <= Len(t) /\ s = SubSeq(t, 1, Len(s))

TheResponse == query.resp[1].recore_state

\* what a field of the response is when its own command ended with o
FieldFor(o, field) ==
    IF o.kind = "error" THEN field = Failed
    ELSE IF o.out = <<>> THEN field = Unknown
    ELSE IsTrimOf(field, o.out)

\* C1: the state handler never raises; whatever the two commands did
\* (output, empty output, shell_cmd.error) it returns
\* {recore_state: {ssh_enabled, boot_media}}, a failed command puts "Failed"
\* in its own field, and each field depends on its own command only.
C1_StateQueryNeverFails ==
    /\ query.pc # "raised"
    /\ query.error = None
    /\ query.pc = "done" =>
          /\ Len(query.resp) = 1
          /\ DOMAIN query.resp[1] = {"recore_state"}
          /\ DOMAIN TheResponse = {"ssh_enabled", "boot_media"}
          /\ query.bootOut.kind = "error" => TheResponse.boot_media = Failed
          /\ query.sshOut.kind = "error" => TheResponse.ssh_enabled = Failed
          /\ FieldFor(query.bootOut, TheResponse.boot_media)
          /\ FieldFor(query.sshOut, TheResponse.ssh_enabled)

\* get-boot-media failed, is-ssh-enabled answered: one degraded field, the
\* other intact
C1_Witness ==
    /\ query.pc = "done"
    /\ query.bootOut.kind = "error"
    /\ query.sshOut = Ok(<<"u", "\n">>)
    /\ TheResponse = [ssh_enabled |-> <<"u">>, boot_media |-> Failed]

\* C2 as stated: when both commands succeed, each field is the trimmed
\* output of its command, the empty output included.
C2_TrimmedVerbatim ==
    (query.pc = "done" /\ query.bootOut.kind = "ok" /\ query.sshOut.kind = "ok") =>
        /\ IsTrimOf(TheResponse.boot_media, query.bootOut.out)
        /\ IsTrimOf(TheResponse.ssh_enabled, query.sshOut.out)

\* C2, amended: when both commands succeed, each field is the trimmed output
\* of its command if that output is not empty (whitespace alone trims to the
\* empty string), and "unknown" if the output is empty.
C2_TrimmedOrUnknown ==
    (query.pc = "done" /\ query.bootOut.kind = "ok" /\ query.sshOut.kind = "ok") =>
        /\ IF query.bootOut.out = <<>>
           THEN TheResponse.boot_media = Unknown
           ELSE IsTrimOf(TheResponse.boot_media, query.bootOut.out)
        /\ IF query.sshOut.out = <<>>
           THEN TheResponse.ssh_enabled = Unknown
           ELSE IsTrimOf(TheResponse.ssh_enabled, query.sshOut.out)

\* a padded output, and an empty one
C2_Witness ==
    /\ query.pc = "done"
    /\ query.bootOut = Ok(<<" ", "u">>)
    /\ query.sshOut = Ok(<<>>)
    /\ TheResponse = [ssh_enabled |-> Unknown, boot_media |-> <<"u">>]

\* C3 as stated: the argument the provider receives from the handler is the
\* value the request carries.
C3_ForwardsRequestValue ==
    (req.pc \in {"awaiting", "done"} /\ req.ep \in {enable_ssh_ep, set_boot_media_ep}) =>
        provArg["http"] = req.value

\* C4: a request whose path is neither machine endpoint raises
\* "Unsupported machine request", never returns "ok" and reaches no
\* privileged command.
C4_UnsupportedRaises ==
    (req.pc # "idle" /\ req.ep \notin {enable_ssh_ep, set_boot_media_ep}) =>
        /\ req.pc = "raised"
        /\ req.error = "Unsupported machine request"
        /\ req.result # "ok"
        /\ provArg["http"] = None
        /\ sudoCalls["http"] = <<>>
        /\ sudoOutcome["http"] = None

C4_Witness ==
    /\ req.pc = "raised"
    /\ req.ep = "/recore/enable_ssh/"
    /\ req.error = "Unsupported machine request"

\* C5: a failure of the privileged call leaves the provider method and the
\* handler as an error; "ok" is returned only after a privileged call that
\* ended without error.
C5_FailurePropagates ==
    /\ sudoOutcome["http"] = "error" =>
          req.pc = "raised" /\ req.error = "ShellCommandError" /\ req.result # "ok"
    /\ req.result = "ok" => req.pc = "done" /\ sudoOutcome["http"] = "ok"
    /\ req.pc = "done" => req.result = "ok"
    /\ sudoOutcome["rpc"] = "error" =>
          rpc.pc = "raised" /\ rpc.error = "ShellCommandError"
    /\ rpc.pc = "done" => sudoOutcome["rpc"] = "ok"

C5_Witness ==
    /\ req.pc = "raised"
    /\ req.ep = set_boot_media_ep
    /\ sudoOutcome["http"] = "error"
    /\ rpc.pc = "done"

\* the command a provider call must have issued
FixedCommand(method, x) ==
    IF method = "enable_ssh" THEN "/usr/local/bin/set-ssh-access " \o x
    ELSE IF method = "set_boot_media" THEN "/usr/local/bin/set-boot-media " \o x
    ELSE None

ReqMethod ==
    IF req.ep = enable_ssh_ep THEN "enable_ssh"
    ELSE IF req.ep = set_boot_media_ep THEN "set_boot_media"
    ELSE None

\* C6: a call enable_ssh(x) or set_boot_media(x) makes exactly one privileged
\* invocation, of the fixed binary path followed by x, and none is added when
\* the call has ended, with or without error.
C6_OneExactInvocation ==
    /\ rpc.pc # "idle" =>
          sudoCalls["rpc"] = <<FixedCommand(rpc.method, provArg["rpc"])>>
    /\ rpc.pc = "idle" => sudoCalls["rpc"] = <<>>
    /\ provArg["rpc"] = rpc.arg
    /\ provArg["http"] # None =>
          sudoCalls["http"] = <<FixedCommand(ReqMethod, provArg["http"])>>
    /\ provArg["http"] = None => sudoCalls["http"] = <<>>

C6_Witness ==
    /\ rpc.pc = "raised"
    /\ rpc.method = "set_boot_media"
    /\ sudoCalls["rpc"] = <<"/usr/local/bin/set-boot-media emmc">>
    /\ req.pc = "done"
    /\ sudoCalls["http"] = <<"/usr/local/bin/set-ssh-access true">>

\* C7: wait_for_init never raises; a waiter returns once the event is set,
\* and a waiter that gave a timeout returns even if the event is never set.
C7_WaitReturns ==
    /\ [](\A w \in Waiters : waiters[w].pc # "raised")
    /\ \A w \in Waiters :
          (waiters[w].pc = "waiting" /\ init_evt) ~> (waiters[w].pc = "returned")
    /\ \A w \in Waiters :
          (waiters[w].pc = "waiting" /\ waiters[w].timeout # NoTimeout)
              ~> (waiters[w].pc = "returned")

\* startup failed; one waiter returned on its timeout, the other by nothing
C7_Witness ==
    /\ init.pc = "failed"
    /\ ~init_evt
    /\ waiters["w1"].pc = "returned"
    /\ waiters["w1"].via = "timeout"
    /\ waiters["w1"].timeout = <<MaxTimeout>>
    /\ waiters["w2"].pc = "returned"
    /\ waiters["w2"].timeout = <<0>>

\* C8: the event is unset at construction, is set only by component_init
\* and only when initialize() has returned, is never cleared, and is never
\* set when initialize() failed.
C8_OneShotReadiness ==
    /\ ~init_evt
    /\ [](init_evt => (init.pc = "done" /\ init.initialized))
    /\ [](init.pc = "failed" => ~init_evt)
    /\ [][init_evt => init_evt']_vars
    /\ [][(~init_evt /\ init_evt') => (init.pc = "idle" /\ init'.pc = "done")]_vars

C8_Witness ==
    /\ init_evt
    /\ init.pc = "done"
    /\ waiters["w1"].pc = "returned"
    /\ waiters["w1"].via = "event"
    /\ req.pc = "done"

QueryTrips ==
    <<Started(get_boot_media_bin), Ended(get_boot_media_bin),
      Started(is_ssh_enabled_bin), Ended(is_ssh_enabled_bin)>>

\* C9: a state query runs get-boot-media to its end, then is-ssh-enabled,
\* whatever the first did: two round trips in that order, and no privileged
\* command.
C9_TwoTripsInOrder ==
    /\ IsPrefix(shellLog, QueryTrips)
    /\ query.pc = "idle" <=> shellLog = <<>>
    /\ query.pc = "boot_media" <=> Len(shellLog) = 1
    /\ query.bootOut # NoOutcome => Len(shellLog) >= 3
    /\ query.pc = "ssh_enabled" <=> Len(shellLog) = 3
    /\ query.pc = "done" <=> shellLog = QueryTrips
    /\ sudoCalls["state"] = <<>> /\ provArg["state"] = None

\* the first command failed and the second was still run
C9_Witness ==
    /\ query.pc = "done"
    /\ query.bootOut.kind = "error"
    /\ shellLog = QueryTrips
    /\ sudoCalls["http"] # <<>>

\* C10: a waiter without a timeout returns only when the event is set, so
\* never if component_init fails; the handlers do not look at the event.
C10_NoTimeoutWaitsForEvent ==
    \A w \in Waiters :
        (waiters[w].pc = "returned" /\ waiters[w].timeout = NoTimeout) =>
            /\ init_evt
            /\ init.pc = "done"
            /\ waiters[w].via = "event"

\* both handlers ran to their end before component_init, and a waiter
\* without a timeout returned after it
C10_Witness ==
    /\ \E w \in Waiters :
          waiters[w].pc = "returned" /\ waiters[w].timeout = NoTimeout
    /\ req.pc = "done" /\ ~req.evtAtEntry
    /\ query.pc = "done" /\ ~query.evtAtEntry
    /\ rpc.pc = "awaiting"

====
